---- MODULE Spec2Model ----
(***************************************************************************)
(* Model of the plant trait dashboard (src/app.py).                        *)
(*                                                                         *)
(* A Python str is a sequence of one-character strings, so that strip(),   *)
(* lower(), re.split() and the code-point order used by sorted() and       *)
(* LabelEncoder are computed and not assumed.  The table is a record       *)
(* [cols, rows]; a row is a function from column name to cell value.       *)
(* The state is the module-level state of app.py (the table read from the  *)
(* CSV file, df, FILTER_OPTIONS, PLANT_LIST, CATEGORY_MAPPINGS, ENCODERS,  *)
(* ENCODED) and the response of the last request.  The columns PCA1, PCA2  *)
(* and Cluster that the default fit adds to df are never read by a handler *)
(* and are not represented: they change exactly when df does.              *)
(***************************************************************************)
EXTENDS Integers, Sequences, FiniteSets, TLC

VARIABLES pc, frame, df, FILTER_OPTIONS, PLANT_LIST, CATEGORY_MAPPINGS,
          ENCODERS, ENCODED, resp

vars == <<pc, frame, df, FILTER_OPTIONS, PLANT_LIST, CATEGORY_MAPPINGS,
          ENCODERS, ENCODED, resp>>

shared == <<pc, frame, df, FILTER_OPTIONS, PLANT_LIST, CATEGORY_MAPPINGS,
            ENCODERS, ENCODED>>

(***************************************************************************)
(* Characters and strings                                                  *)
(***************************************************************************)
Digits == <<"0","1","2","3","4","5","6","7","8","9">>

UpperCase == <<"A","B","C","D","E","F","G","H","I","J","K","L","M",
               "N","O","P","Q","R","S","T","U","V","W","X","Y","Z">>

LowerCase == <<"a","b","c","d","e","f","g","h","i","j","k","l","m",
               "n","o","p","q","r","s","t","u","v","w","x","y","z">>

\* The characters of the model in code-point order: the order Python compares
\* str by.
CodePoints == <<" ", ",", "-", "/">> \o Digits \o <<";">> \o UpperCase \o LowerCase

Range(s) == {s[i] : i \in DOMAIN s}

\* A list or table given by a rule, with its entries computed once (the same
\* value: only the evaluation is eager).
List(s) == s \o <<>>
Table(f) == f @@ <<>>

Ord == [c \in Range(CodePoints) |-> CHOOSE i \in DOMAIN CodePoints : CodePoints[i] = c]

IsAlnum == [c \in Range(CodePoints) |->
              c \in Range(Digits) \cup Range(UpperCase) \cup Range(LowerCase)]

LowerChar == [c \in Range(CodePoints) |->
                IF c \in Range(UpperCase)
                THEN LowerCase[CHOOSE i \in DOMAIN UpperCase : UpperCase[i] = c]
                ELSE c]

\* str.lower()
Lower(s) == List([i \in 1..Len(s) |-> LowerChar[s[i]]])

\* str.strip(): drop leading and trailing whitespace
RECURSIVE LStrip(_)
LStrip(s) == IF s # <<>> /\ Head(s) = " " THEN LStrip(Tail(s)) ELSE s

RECURSIVE RStrip(_)
RStrip(s) == IF s # <<>> /\ s[Len(s)] = " " THEN RStrip(SubSeq(s, 1, Len(s) - 1)) ELSE s

Strip(s) == RStrip(LStrip(s))

\* a < b for Python str: lexicographic by code point
RECURSIVE StrLess(_, _)
StrLess(a, b) ==
    IF b = <<>> THEN FALSE
    ELSE IF a = <<>> THEN TRUE
    ELSE IF Head(a) = Head(b) THEN StrLess(Tail(a), Tail(b))
    ELSE Ord[Head(a)] < Ord[Head(b)]

\* sorted(set of str): the ascending list of the distinct values; a value's
\* place is the number of values below it
SortedStrs(S) ==
    LET below == Table([x \in S |-> Cardinality({y \in S : StrLess(y, x)})]) IN
    List([r \in 1..Cardinality(S) |-> CHOOSE x \in S : below[x] = r - 1])

\* position of v in the sequence s (0 when absent)
IndexOf(s, v) == IF \E i \in DOMAIN s : s[i] = v
                 THEN CHOOSE i \in DOMAIN s : s[i] = v /\ \A j \in 1..(i - 1) : s[j] # v
                 ELSE 0

\* concatenation of a list of lists
RECURSIVE Concat(_)
Concat(ss) ==
    IF Len(ss) = 0 THEN <<>>
    ELSE IF Len(ss) = 1 THEN ss[1]
    ELSE LET h == Len(ss) \div 2 IN
         Concat(SubSeq(ss, 1, h)) \o Concat(SubSeq(ss, h + 1, Len(ss)))

\* the elements of the list idx that the boolean mask keeps, order kept
Where(idx, mask) ==
    Concat([k \in DOMAIN idx |-> IF mask[idx[k]] THEN <<idx[k]>> ELSE <<>>])

\* the distinct values of a list in first-seen order
FirstSeen(values) ==
    Concat([k \in DOMAIN values |->
              IF \E j \in 1..(k - 1) : values[j] = values[k] THEN <<>> ELSE <<values[k]>>])

\* string literals
Unknown == <<"U","n","k","n","o","w","n">>
unknown == <<"u","n","k","n","o","w","n">>
Yes == <<"Y","e","s">>
No == <<"N","o">>

(***************************************************************************)
(* _normalize_columns                                                      *)
(***************************************************************************)
expected == <<"Plant", "Root", "Type", "Root Type", "Stem / Growth Form",
              "Leaf Traits", "Reproductive Traits", "Stress Tolerance",
              "Special Adaptations", "Common Name", "Vegetable", "Fruit",
              "Medicinal Plant", "Commercial Crop", "Ornamental Plant",
              "Fodder Crop">>

\* for col in expected: if col not in frame.columns: frame[col] = 'Unknown'
EnsureExpected(f) ==
    LET cols == f.cols \cup Range(expected) IN
    [cols |-> cols,
     rows |-> List([i \in 1..Len(f.rows) |->
                 Table([c \in cols |-> IF c \in f.cols THEN f.rows[i][c] ELSE Unknown])])]

\* .str.strip().replace({'': 'Unknown'})
CleanCell(v) == IF Strip(v) = <<>> THEN Unknown ELSE Strip(v)

CleanExpected(f) ==
    [cols |-> f.cols,
     rows |-> List([i \in 1..Len(f.rows) |->
                 Table([c \in f.cols |-> IF c \in Range(expected)
                                         THEN CleanCell(f.rows[i][c]) ELSE f.rows[i][c]])])]

_to_yes_no(val) ==
    LET v == Lower(Strip(val)) IN
    IF v \in {<<"y">>, <<"y","e","s">>, <<"t","r","u","e">>, <<"1">>} THEN Yes
    ELSE IF v \in {<<"n">>, <<"n","o">>, <<"f","a","l","s","e">>, <<"0">>} THEN No
    ELSE IF v # <<>> /\ v # unknown THEN Yes
    ELSE No

FlagCols == <<"VegetableFlag", "FruitFlag", "MedicinalFlag", "CommercialFlag",
              "OrnamentalFlag", "FodderFlag">>

UsageCols == <<"Vegetable", "Fruit", "Medicinal Plant", "Commercial Crop",
               "Ornamental Plant", "Fodder Crop">>

\* frame['Root Type'] = frame['Root'] if 'Root' in frame.columns else frame['Root Type']
RootTypeOf(cols, row) == IF "Root" \in cols THEN row["Root"] ELSE row["Root Type"]

\* frame['Root Depth'] = frame['Type'] if 'Type' in frame.columns else 'Unknown'
RootDepthOf(cols, row) == IF "Type" \in cols THEN row["Type"] ELSE Unknown

\* frame['Common Name'].replace('Unknown', pd.NA).fillna(frame['Plant'])
CommonNameOf(row) == IF row["Common Name"] = Unknown THEN row["Plant"] ELSE row["Common Name"]

DerivedRow(cols, row) ==
    Table([c \in cols \cup {"Root Depth"} \cup Range(FlagCols) |->
        IF c = "Root Type" THEN RootTypeOf(cols, row)
        ELSE IF c = "Root Depth" THEN RootDepthOf(cols, row)
        ELSE IF c \in Range(FlagCols) THEN _to_yes_no(row[UsageCols[IndexOf(FlagCols, c)]])
        ELSE IF c = "Common Name" THEN CommonNameOf(row)
        ELSE row[c]])

_normalize_columns(f) ==
    LET g == CleanExpected(EnsureExpected(f)) IN
    List([i \in 1..Len(g.rows) |-> DerivedRow(g.cols, g.rows[i])])

\* df[col] as a list
Column(rows, col) == List([i \in 1..Len(rows) |-> rows[i][col]])

(***************************************************************************)
(* Precomputations: FILTER_OPTIONS, ENCODERS, ENCODED                      *)
(***************************************************************************)
USAGE_OPTIONS ==
    <<<<"V","e","g","e","t","a","b","l","e">>,
      <<"F","r","u","i","t">>,
      <<"M","e","d","i","c","i","n","a","l"," ","P","l","a","n","t">>,
      <<"C","o","m","m","e","r","c","i","a","l"," ","C","r","o","p">>,
      <<"O","r","n","a","m","e","n","t","a","l"," ","P","l","a","n","t">>,
      <<"F","o","d","d","e","r"," ","C","r","o","p">>>>

\* variant: the sentinel is always offered
SortedUniqueWithUnknown(rows, col) == SortedStrs(Range(Column(rows, col)) \cup {Unknown})

\* sorted(df[col].dropna().unique().tolist())
SortedUnique(rows, col) == SortedStrs(Range(Column(rows, col)))

FilterOptionsOf(rows) ==
    [root_systems      |-> SortedUnique(rows, "Root Type"),
     root_depths       |-> SortedUnique(rows, "Root Depth"),
     growth_forms      |-> SortedUnique(rows, "Stem / Growth Form"),
     stress_tolerances |-> SortedUnique(rows, "Stress Tolerance"),
     vegetable         |-> <<Yes, No>>,
     usage             |-> USAGE_OPTIONS]

\* sub in s
Contains(s, sub) ==
    \E i \in 0..(Len(s) - Len(sub)) : SubSeq(s, i + 1, i + Len(sub)) = sub

get_plant_category(row) ==
    LET stem == Lower(row["Stem / Growth Form"]) IN
    IF Contains(stem, <<"t","r","e","e">>) THEN "Tree"
    ELSE IF Contains(stem, <<"s","h","r","u","b">>) THEN "Shrub"
    ELSE IF Contains(stem, <<"h","e","r","b">>) THEN "Herb"
    ELSE IF Contains(stem, <<"v","i","n","e">>) \/ Contains(stem, <<"c","l","i","m","b","e","r">>) THEN "Vine"
    ELSE "Other"

\* PLANT_LIST: one entry per row; the usage tags and flag columns of the
\* comprehension are those of USAGE_OPTIONS and FlagCols, in the same order
PlantListOf(rows) ==
    List([i \in 1..Len(rows) |->
            [id |-> rows[i]["Plant"],
             text |-> rows[i]["Common Name"],
             name |-> rows[i]["Common Name"],
             scientific |-> rows[i]["Plant"],
             category |-> get_plant_category(rows[i]),
             vegetable |-> rows[i]["VegetableFlag"],
             usage |-> Concat([k \in DOMAIN USAGE_OPTIONS |->
                                 IF rows[i][FlagCols[k]] = Yes
                                 THEN <<USAGE_OPTIONS[k]>> ELSE <<>>])]])

\* whether the loop of CATEGORY_MAPPINGS appends the plant under key
InCategory(rows, plant, key) ==
    \/ plant.category = key
    \/ key = "Edible" /\ plant.vegetable = Yes
    \/ /\ key = "Drought Tolerant"
       /\ \E i \in DOMAIN rows :
             /\ rows[i]["Plant"] = plant.id
             /\ \A j \in 1..(i - 1) : rows[j]["Plant"] # plant.id
             /\ Contains(Lower(rows[i]["Stress Tolerance"]), <<"d","r","o","u","g","h","t">>)

\* CATEGORY_MAPPINGS: per key that got a plant, the plants in list order
CategoryMappingsOf(plants, rows) ==
    LET keys == {"Tree", "Shrub", "Herb", "Vine", "Other", "Edible", "Drought Tolerant"}
        members == Table([key \in keys |->
                      Concat([i \in DOMAIN plants |->
                                IF InCategory(rows, plants[i], key)
                                THEN <<plants[i]>> ELSE <<>>])])
    IN Table([key \in {k \in keys : members[k] # <<>>} |-> members[key]])

TRAIT_COLS == <<"Root Type", "Root Depth", "Stem / Growth Form", "Leaf Traits",
                "Reproductive Traits", "Stress Tolerance", "Special Adaptations",
                "VegetableFlag", "FruitFlag", "MedicinalFlag", "CommercialFlag",
                "OrnamentalFlag", "FodderFlag">>

\* variant: classes in first-seen order
LabelFitFirstSeen(values) == FirstSeen(values)

\* LabelEncoder().fit(values).classes_: the sorted distinct values
LabelFit(values) == SortedStrs(Range(values))

\* LabelEncoder.transform of one value: its position in classes_, from 0
LabelTransform(classes, v) == IndexOf(classes, v) - 1

\* LabelEncoder.inverse_transform of one code
LabelInverse(classes, code) == classes[code + 1]

EncodersOf(rows) == Table([c \in Range(TRAIT_COLS) |-> LabelFit(Column(rows, c))])

EncodedOf(rows, encoders) ==
    List([i \in 1..Len(rows) |->
        Table([c \in Range(TRAIT_COLS) |-> LabelTransform(encoders[c], rows[i][c])])])

\* PCA(n_components=2) and KMeans(n_clusters=5) fitted on ENCODED at import
PCA_COMPONENTS == 2
DEFAULT_CLUSTERS == 5

\* PCA.fit_transform raises unless n_components <= min(n_samples, n_features)
PCAFits(nSamples, nFeatures) ==
    PCA_COMPONENTS <= nSamples /\ PCA_COMPONENTS <= nFeatures

\* KMeans.fit raises unless 1 <= n_clusters <= n_samples
KMeansFits(nClusters, nSamples) == 1 <= nClusters /\ nClusters <= nSamples

NoResp == [op |-> "none"]

\* The module-level code of app.py, lines 87-240: normalize the table and build
\* the lookup tables; the import fails when the default PCA or KMeans cannot
\* be fitted (the coordinates and labels they produce are not represented).
Startup ==
    /\ pc = "loaded"
    /\ LET rows == _normalize_columns(frame)
           encoders == EncodersOf(rows) IN
       /\ df' = rows
       /\ FILTER_OPTIONS' = FilterOptionsOf(rows)
       /\ PLANT_LIST' = PlantListOf(rows)
       /\ CATEGORY_MAPPINGS' = CategoryMappingsOf(PlantListOf(rows), rows)
       /\ ENCODERS' = encoders
       /\ ENCODED' = EncodedOf(rows, encoders)
       /\ pc' = IF /\ PCAFits(Len(rows), Len(TRAIT_COLS))
                  /\ KMeansFits(DEFAULT_CLUSTERS, Len(rows))
               THEN "ready" ELSE "failed"
    /\ UNCHANGED <<frame, resp>>

\* the state right after pd.read_csv(...).fillna('Unknown') of a file
Loaded(files) ==
    /\ pc = "loaded"
    /\ frame \in files
    /\ df = <<>>
    /\ FILTER_OPTIONS = <<>>
    /\ PLANT_LIST = <<>>
    /\ CATEGORY_MAPPINGS = <<>>
    /\ ENCODERS = <<>>
    /\ ENCODED = <<>>
    /\ resp = NoResp

(***************************************************************************)
(* Request arguments and apply_filters                                     *)
(***************************************************************************)
ArgNames == {"plants", "root_system", "root_depth", "growth_form",
             "stress_tolerance", "vegetable", "usage"}

\* str.split(sep) for a one-character separator
RECURSIVE Split(_, _)
Split(s, sep) ==
    IF \E i \in DOMAIN s : s[i] = sep
    THEN LET i == IndexOf(s, sep) IN
         <<SubSeq(s, 1, i - 1)>> \o Split(SubSeq(s, i + 1, Len(s)), sep)
    ELSE <<s>>

\* [v.strip() for v in parts if v.strip()]
RECURSIVE StripNonEmpty(_)
StripNonEmpty(parts) ==
    IF parts = <<>> THEN <<>>
    ELSE IF Strip(Head(parts)) # <<>>
         THEN <<Strip(Head(parts))>> \o StripNonEmpty(Tail(parts))
         ELSE StripNonEmpty(Tail(parts))

\* A request's query arguments: q.brackets[name] is getlist(name + '[]'),
\* q.plain[name] is get(name, '').
_parse_list_arg(q, arg_name) ==
    IF q.brackets[arg_name] # <<>> THEN q.brackets[arg_name]
    ELSE IF q.plain[arg_name] # <<>> THEN StripNonEmpty(Split(q.plain[arg_name], ","))
    ELSE <<>>

\* filtered[filtered[col].isin(values)] when values is not empty
FilterIsin(rows, idx, col, values) ==
    IF values # <<>>
    THEN LET wanted == Range(values) IN
         Where(idx, [i \in 1..Len(rows) |-> rows[i][col] \in wanted])
    ELSE idx

\* usage_map.get(u): the flag column of a usage tag, "" for None
UsageMapGet(u) == IF IndexOf(USAGE_OPTIONS, u) = 0 THEN ""
                  ELSE FlagCols[IndexOf(USAGE_OPTIONS, u)]

\* variant: a row must carry every named usage flag
UsageMaskAll(rows, usage) ==
    [i \in 1..Len(rows) |->
        \A k \in DOMAIN usage :
            /\ UsageMapGet(usage[k]) # ""
            /\ rows[i][UsageMapGet(usage[k])] = Yes]

\* mask | (filtered[col] == 'Yes') over the tags of the request
UsageMask(rows, usage) ==
    [i \in 1..Len(rows) |->
        \E k \in DOMAIN usage :
            /\ UsageMapGet(usage[k]) # ""
            /\ UsageMapGet(usage[k]) \in DOMAIN rows[i]
            /\ rows[i][UsageMapGet(usage[k])] = Yes]

FilterUsage(rows, idx, usage) ==
    IF usage # <<>> THEN Where(idx, UsageMask(rows, usage)) ELSE idx

\* The filtered frame is the list of the index labels (row positions of the
\* source) it keeps, as a pandas frame keeps them.
apply_filters(rows, q) ==
    LET f0 == List([i \in 1..Len(rows) |-> i])
        f1 == FilterIsin(rows, f0, "Plant", _parse_list_arg(q, "plants"))
        f2 == FilterIsin(rows, f1, "Root Type", _parse_list_arg(q, "root_system"))
        f3 == FilterIsin(rows, f2, "Root Depth", _parse_list_arg(q, "root_depth"))
        f4 == FilterIsin(rows, f3, "Stem / Growth Form", _parse_list_arg(q, "growth_form"))
        f5 == FilterIsin(rows, f4, "Stress Tolerance", _parse_list_arg(q, "stress_tolerance"))
        f6 == FilterIsin(rows, f5, "VegetableFlag", _parse_list_arg(q, "vegetable"))
    IN  FilterUsage(rows, f6, _parse_list_arg(q, "usage"))

\* Series.value_counts().to_dict() of a column over the kept rows
ValueCounts(rows, idx, col) ==
    Table([v \in {rows[idx[k]][col] : k \in DOMAIN idx} |->
             Cardinality({k \in DOMAIN idx : rows[idx[k]][col] = v})])

\* The server handles one request at a time: a handler runs when no response
\* is pending, and jsonify's return hands the response over.
Idle == pc = "ready" /\ resp = NoResp

send_response ==
    /\ pc = "ready"
    /\ resp # NoResp
    /\ resp' = NoResp
    /\ UNCHANGED shared

\* GET /api/stress
get_stress(q) ==
    /\ Idle
    /\ LET filtered == apply_filters(df, q) IN
       resp' = [op |-> "stress", q |-> q, filtered |-> filtered,
                stress_counts |-> ValueCounts(df, filtered, "Stress Tolerance")]
    /\ UNCHANGED shared

(***************************************************************************)
(* Input tables and requests of the checks                                 *)
(***************************************************************************)
\* rows of the small tables: at most MaxRows
MaxRows == 5

\* header of the current data set (split Root / Type columns)
SchemaNew == {"Plant", "Root", "Type", "Stem / Growth Form", "Leaf Traits",
              "Stress Tolerance", "Special Adaptations", "Vegetable", "Fruit"}

\* header of the legacy data set (single Root Type column)
SchemaLegacy == {"Plant", "Root Type", "Stem / Growth Form", "Leaf Traits",
                 "Stress Tolerance", "Special Adaptations", "Vegetable", "Fruit"}

Cell(plant, root, type, gf, lt, st, sa, veg, fruit) ==
    [c \in SchemaNew \cup SchemaLegacy |->
        CASE c = "Plant" -> plant
          [] c = "Root" -> root
          [] c = "Root Type" -> root
          [] c = "Type" -> type
          [] c = "Stem / Growth Form" -> gf
          [] c = "Leaf Traits" -> lt
          [] c = "Stress Tolerance" -> st
          [] c = "Special Adaptations" -> sa
          [] c = "Vegetable" -> veg
          [] c = "Fruit" -> fruit]

sNeem == <<"N","e","e","m">>
sOkra == <<"O","k","r","a">>
sRice == <<"R","i","c","e">>
sTap == <<"T","a","p">>
sFibrous == <<"F","i","b","r","o","u","s">>
sDeep == <<"D","e","e","p">>
sTree == <<"T","r","e","e">>
sHerb == <<"H","e","r","b">>
sBroad == <<"B","r","o","a","d">>
sAll == <<"A","l","l">>
sDrought == <<"D","r","o","u","g","h","t">>
sSalt == <<"S","a","l","t">>
sBlank == <<" ">>
sThorns == <<"d","r","o","u","g","h","t","-","r","e","s","i","s","t","a","n","t",";"," ","d","e","e","p"," ","r","o","o","t","s">>
sWaxy == <<"W","a","x","y"," ","l","e","a","f",","," ","n","o"," ","t","h","o","r","n","s">>

RowNeem == Cell(sNeem, sTap, sDeep, sTree, sBroad, sDrought, sThorns, <<"0">>, <<"n","o">>)
RowOkra == Cell(sOkra, sTap, sBlank, sHerb, sBroad, sDrought, sWaxy, <<"y","e","s">>, <<"1">>)
RowRice == Cell(sRice, sFibrous, sDeep, sHerb, sAll, sSalt, Unknown, sBlank, <<"Y">>)

SmallPool == {RowNeem, RowOkra, RowRice}

\* the tables with the header cols and lo..hi rows drawn from pool
Tables(cols, pool, lo, hi) ==
    UNION {{[cols |-> cols, rows |-> [i \in 1..n |-> [c \in cols |-> r[i][c]]]] :
               r \in [1..n -> pool]} : n \in lo..hi}

SmallFiles == Tables(SchemaNew, SmallPool, 0, MaxRows)
                \cup Tables(SchemaLegacy, SmallPool, 0, MaxRows)

EmptyQuery == [brackets |-> [a \in ArgNames |-> <<>>], plain |-> [a \in ArgNames |-> <<>>]]

\* one query argument: its name, how it is passed, its value
ArgChoices ==
    { <<"plants", "brackets", <<sNeem>> >>,
      <<"plants", "plain", <<"N","e","e","m",","," ","O","k","r","a">> >>,
      <<"plants", "plain", <<",">> >>,
      <<"root_system", "brackets", <<sTap>> >>,
      <<"root_depth", "brackets", <<Unknown>> >>,
      <<"growth_form", "brackets", <<sHerb>> >>,
      <<"stress_tolerance", "plain", sDrought >>,
      <<"vegetable", "brackets", <<Yes>> >>,
      <<"vegetable", "brackets", <<No>> >>,
      <<"usage", "brackets", <<USAGE_OPTIONS[2], USAGE_OPTIONS[1]>> >>,
      <<"usage", "brackets", << <<"B","o","g","u","s">> >> >>,
      <<"usage", "plain", USAGE_OPTIONS[2] >> }

WithArg(q, a) ==
    IF a[2] = "brackets" THEN [q EXCEPT !.brackets[a[1]] = a[3]]
    ELSE [q EXCEPT !.plain[a[1]] = a[3]]

\* the requests with at most two query arguments
Queries ==
    {EmptyQuery} \cup {WithArg(EmptyQuery, a) : a \in ArgChoices}
      \cup {WithArg(WithArg(EmptyQuery, p[1]), p[2]) :
               p \in {x \in ArgChoices \X ArgChoices : x[1][1] # x[2][1]}}

InitCatalog == Loaded(SmallFiles)

NextCatalog == Startup \/ send_response \/ \E q \in Queries : get_stress(q)

SpecCatalog == InitCatalog /\ [][NextCatalog]_vars

(***************************************************************************)
(* C1: apply_filters returns exactly the rows that satisfy every present   *)
(* field's predicate, ANDed, in catalog order; an empty field does not     *)
(* constrain, so the all-empty query returns the whole catalog.            *)
(***************************************************************************)
FieldColumn == [plants |-> "Plant", root_system |-> "Root Type",
                root_depth |-> "Root Depth", growth_form |-> "Stem / Growth Form",
                stress_tolerance |-> "Stress Tolerance", vegetable |-> "VegetableFlag"]

\* the values a request names for a field
FieldValues(q, a) == Range(_parse_list_arg(q, a))

RowSatisfies(row, q) ==
    /\ \A a \in DOMAIN FieldColumn :
          FieldValues(q, a) = {} \/ row[FieldColumn[a]] \in FieldValues(q, a)
    /\ \/ FieldValues(q, "usage") = {}
       \/ \E k \in DOMAIN USAGE_OPTIONS :
             USAGE_OPTIONS[k] \in FieldValues(q, "usage") /\ row[FlagCols[k]] = Yes

Increasing(idx) == \A i, j \in DOMAIN idx : i < j => idx[i] < idx[j]

\* C1: the filter keeps exactly the rows that meet every non-empty field of
\* the request, in catalog order; the all-empty request keeps every row
C1_FilterExact ==
    resp.op = "stress" =>
        /\ Increasing(resp.filtered)
        /\ Range(resp.filtered) = {i \in DOMAIN df : RowSatisfies(df[i], resp.q)}
        /\ (\A a \in ArgNames : FieldValues(resp.q, a) = {})
              => resp.filtered = [i \in 1..Len(df) |-> i]

\* two fields constrain and the result is a proper, non-empty part of the catalog
C1_Witness ==
    /\ resp.op = "stress"
    /\ FieldValues(resp.q, "growth_form") # {}
    /\ FieldValues(resp.q, "usage") # {}
    /\ resp.filtered # <<>>
    /\ Len(resp.filtered) < Len(df)
    /\ \E i \in DOMAIN df : i < resp.filtered[1]

(***************************************************************************)
(* C5: with only the legacy Root Type column in the file, normalization    *)
(* maps its values into the canonical root type of every row; only a       *)
(* column absent in every variant is filled with "Unknown".                *)
(***************************************************************************)
\* the file's column that carries the root type, "" when no variant is there
RootSourceColumn(cols) == IF "Root" \in cols THEN "Root"
                          ELSE IF "Root Type" \in cols THEN "Root Type" ELSE ""

\* C5: the canonical root type of every row is the cleaned value of the
\* file's root column, legacy "Root Type" included; "Unknown" when there is none
C5_LegacyRootTypeMapped ==
    pc # "loaded" =>
        \A i \in DOMAIN df :
            IF RootSourceColumn(frame.cols) = ""
            THEN df[i]["Root Type"] = Unknown
            ELSE df[i]["Root Type"] = CleanCell(frame.rows[i][RootSourceColumn(frame.cols)])

(***************************************************************************)
(* C6 as claimed: every value FILTER_OPTIONS lists under any field occurs  *)
(* in that field of at least one row of the catalog.                       *)
(***************************************************************************)
Occurs(col, v) == \E i \in DOMAIN df : df[i][col] = v

TraitOptionsOccur ==
    /\ \A v \in Range(FILTER_OPTIONS.root_systems) : Occurs("Root Type", v)
    /\ \A v \in Range(FILTER_OPTIONS.root_depths) : Occurs("Root Depth", v)
    /\ \A v \in Range(FILTER_OPTIONS.growth_forms) : Occurs("Stem / Growth Form", v)
    /\ \A v \in Range(FILTER_OPTIONS.stress_tolerances) : Occurs("Stress Tolerance", v)

\* C6 as claimed: every value listed by FilterOptions occurs in at least one
\* row of the catalog
C6_EveryOptionOccurs ==
    pc = "ready" =>
        /\ TraitOptionsOccur
        /\ \A v \in Range(FILTER_OPTIONS.vegetable) : Occurs("VegetableFlag", v)
        /\ \A k \in DOMAIN FILTER_OPTIONS.usage :
              FILTER_OPTIONS.usage[k] = USAGE_OPTIONS[k] /\ Occurs(FlagCols[k], Yes)

(***************************************************************************)
(* C6 amended: every value listed under root systems, root depths, growth  *)
(* forms and stress tolerances occurs in that field of at least one row;   *)
(* the vegetable and usage lists are the fixed lists Yes/No and the six    *)
(* usage tags, whether or not any row carries them.                        *)
(***************************************************************************)
C6_TraitOptionsOccur ==
    pc = "ready" =>
        /\ TraitOptionsOccur
        /\ FILTER_OPTIONS.vegetable = <<Yes, No>>
        /\ FILTER_OPTIONS.usage = USAGE_OPTIONS

\* two root systems and two growth forms are offered, and no row is a vegetable
C6_Witness ==
    /\ pc = "ready"
    /\ Len(FILTER_OPTIONS.root_systems) = 2
    /\ Len(FILTER_OPTIONS.growth_forms) = 2
    /\ ~Occurs("VegetableFlag", Yes)

(***************************************************************************)
(* C10: per trait column the encoder gives the k distinct observed values  *)
(* the codes 0..k-1 in sorted value order, one-to-one: decoding a code     *)
(* gives back the value, and equal raw values get equal codes.             *)
(***************************************************************************)
C10_OrdinalEncoding ==
    pc = "ready" =>
        \A c \in Range(TRAIT_COLS) :
            /\ {ENCODED[i][c] : i \in DOMAIN df}
                 = 0..(Cardinality({df[i][c] : i \in DOMAIN df}) - 1)
            /\ \A i, j \in DOMAIN df :
                  /\ StrLess(df[i][c], df[j][c]) => ENCODED[i][c] < ENCODED[j][c]
                  /\ df[i][c] = df[j][c] => ENCODED[i][c] = ENCODED[j][c]
            /\ \A i \in DOMAIN df : LabelInverse(ENCODERS[c], ENCODED[i][c]) = df[i][c]

\* a column whose first-seen order is not its sorted order
C10_Witness ==
    /\ pc = "ready"
    /\ df[1]["Root Type"] = sTap
    /\ df[2]["Root Type"] = sFibrous
    /\ ENCODED[1]["Root Type"] = 1
    /\ ENCODED[2]["Root Type"] = 0

(***************************************************************************)
(* get_clusters                                                            *)
(***************************************************************************)
morph_cols == <<"Root Type", "Root Depth", "Stem / Growth Form", "Leaf Traits",
                "Reproductive Traits">>
stress_cols == <<"Stress Tolerance", "Special Adaptations">>
usage_cols == <<"VegetableFlag", "FruitFlag", "MedicinalFlag", "CommercialFlag",
                "OrnamentalFlag", "FodderFlag">>

\* the feature columns of request.args.get('cluster_mode', 'combined').lower()
ClusterCols(cluster_mode) ==
    LET mode == Lower(cluster_mode) IN
    IF mode = <<"m","o","r","p","h","o","l","o","g","y">> THEN morph_cols
    ELSE IF mode = <<"s","t","r","e","s","s">> THEN stress_cols
    ELSE IF mode = <<"u","s","a","g","e">> THEN usage_cols
    ELSE IF mode \in {<<"m","o","r","p","h","o","l","o","g","y","+","s","t","r","e","s","s">>, <<"c","o","m","b","i","n","e","d">>} THEN morph_cols \o stress_cols
    ELSE IF mode = <<"s","t","r","e","s","s","+","u","s","a","g","e">> THEN stress_cols \o usage_cols
    ELSE IF mode = <<"m","o","r","p","h","o","l","o","g","y","+","u","s","a","g","e">> THEN morph_cols \o usage_cols
    ELSE morph_cols \o stress_cols \o usage_cols

\* OneHotEncoder.fit_transform over the kept rows: per column one indicator
\* per category, the categories being the sorted values of the kept rows
OneHot(rows, idx, cols) ==
    LET cats == [j \in DOMAIN cols |->
                    SortedStrs({rows[idx[k]][cols[j]] : k \in DOMAIN idx})] IN
    [k \in DOMAIN idx |->
        Concat([j \in DOMAIN cols |->
                  [c \in DOMAIN cats[j] |->
                      IF rows[idx[k]][cols[j]] = cats[j][c] THEN 1 ELSE 0]])]

Min(a, b) == IF a < b THEN a ELSE b
Max(a, b) == IF a > b THEN a ELSE b

\* n_clusters=min(k, max(1, len(filtered)))
ClusterCount(k, n) == Min(k, Max(1, n))

\* the records of the response: one per (row, point, label) of the zip
ClusterRecords(rows, idx, labels) ==
    [i \in 1..Min(Len(idx), Len(labels)) |->
        [Plant |-> rows[idx[i]]["Plant"],
         Label |-> rows[idx[i]]["Common Name"],
         Cluster |-> labels[i]]]

\* GET /api/clusters.  OneHotEncoder rejects an empty frame, PCA rejects fewer
\* samples or features than components, KMeans rejects a cluster count outside
\* 1..n_samples: each raises and the request ends in an error.  The labels
\* KMeans returns are any assignment of the distinct feature vectors to
\* 0..n_clusters-1; the projected coordinates are not represented.
get_clusters(q, cluster_mode, k) ==
    /\ Idle
    /\ LET filtered == apply_filters(df, q)
           cols == ClusterCols(cluster_mode)
           X == OneHot(df, filtered, cols)
           n == Len(filtered)
           req == [op |-> "clusters", q |-> q, cluster_mode |-> cluster_mode,
                   k |-> k, filtered |-> filtered]
       IN
       IF n = 0
       THEN resp' = req @@ [status |-> "error", raised |-> "OneHotEncoder"]
       ELSE IF ~PCAFits(n, Len(X[1]))
       THEN resp' = req @@ [status |-> "error", raised |-> "PCA"]
       ELSE IF ~KMeansFits(ClusterCount(k, n), n)
       THEN resp' = req @@ [status |-> "error", raised |-> "KMeans",
                            n_clusters |-> ClusterCount(k, n)]
       ELSE \E lab \in [Range(X) -> 0..(ClusterCount(k, n) - 1)] :
               resp' = req @@ [status |-> "ok", n_clusters |-> ClusterCount(k, n),
                               points |-> ClusterRecords(df, filtered,
                                             [i \in 1..n |-> lab[X[i]]])]
    /\ UNCHANGED shared

\* largest cluster count requested
MaxK == 3

ClusterModes == {<<"U","s","a","g","e">>, <<"s","t","r","e","s","s">>, <<"c","o","m","b","i","n","e","d">>, <<"a","l","l">>}

ClusterQueries ==
    {EmptyQuery,
     WithArg(EmptyQuery, <<"growth_form", "brackets", <<sHerb>> >>),
     WithArg(EmptyQuery, <<"root_system", "brackets", <<sFibrous>> >>),
     WithArg(EmptyQuery, <<"plants", "brackets", << <<"F","i","g">> >> >>)}

InitClusters == Loaded(Tables(SchemaNew, SmallPool, MaxRows, MaxRows))

NextClusters ==
    \/ Startup
    \/ send_response
    \/ \E q \in ClusterQueries, mode \in ClusterModes, k \in (0 - 1)..MaxK :
          get_clusters(q, mode, k)

SpecClusters == InitClusters /\ [][NextClusters]_vars

(***************************************************************************)
(* C2: a clustering request is never rejected for its parameters: for      *)
(* every integer k and every filtered subset the cluster count handed to   *)
(* the partitioning step is min(k, max(1, subsetSize)), and that count is  *)
(* valid: at least 1 and at most the number of rows of the subset.         *)
(***************************************************************************)
C2_ClusterCountValid ==
    resp.op = "clusters" =>
        /\ resp.status = "ok"
        /\ resp.n_clusters = Min(resp.k, Max(1, Len(resp.filtered)))
        /\ 1 <= resp.n_clusters
        /\ resp.n_clusters <= Len(resp.filtered)

(***************************************************************************)
(* C3: the clusters operation returns one point per row of the filtered    *)
(* subset, in subset order, and every cluster label is an integer in       *)
(* [0, min(k, max(1, subsetSize))).                                        *)
(***************************************************************************)
C3_OnePointPerRow ==
    resp.op = "clusters" =>
        /\ resp.status = "ok"
        /\ Len(resp.points) = Len(resp.filtered)
        /\ \A i \in DOMAIN resp.points :
              /\ resp.points[i].Plant = df[resp.filtered[i]]["Plant"]
              /\ resp.points[i].Cluster \in
                    0..(Min(resp.k, Max(1, Len(resp.filtered))) - 1)

(***************************************************************************)
(* similar_plants                                                          *)
(***************************************************************************)
\* sum of a list of numbers
RECURSIVE SumSeq(_)
SumSeq(s) ==
    IF Len(s) = 0 THEN 0
    ELSE IF Len(s) = 1 THEN s[1]
    ELSE LET h == Len(s) \div 2 IN
         SumSeq(SubSeq(s, 1, h)) + SumSeq(SubSeq(s, h + 1, Len(s)))

\* dist += d * d over TRAIT_COLS.  The handler sorts by math.sqrt(dist); the
\* square root is strictly increasing, so the order is that of dist.
SqDist(a, b) ==
    SumSeq([j \in DOMAIN TRAIT_COLS |->
              (a[TRAIT_COLS[j]] - b[TRAIT_COLS[j]]) * (a[TRAIT_COLS[j]] - b[TRAIT_COLS[j]])])

\* variant: of two equal keys the later entry comes first
SortPlaceTiesReversed(s, key, i) ==
    1 + Cardinality({j \in DOMAIN s : key[s[j]] < key[s[i]]})
      + Cardinality({j \in DOMAIN s : j > i /\ key[s[j]] = key[s[i]]})

\* the place of entry i in a stable ascending sort: after the smaller keys
\* and after the equal keys that stood before it
SortPlace(s, key, i) ==
    1 + Cardinality({j \in DOMAIN s : key[s[j]] < key[s[i]]})
      + Cardinality({j \in DOMAIN s : j < i /\ key[s[j]] = key[s[i]]})

\* list.sort(key=...): ascending by key, equal keys in their original order
StableSort(s, key) ==
    LET place == List([i \in DOMAIN s |-> SortPlace(s, key, i)]) IN
    List([r \in 1..Len(s) |-> s[CHOOSE i \in DOMAIN s : place[i] = r]])

\* sims[:10]
SIMILAR_LIMIT == 10

Take(s, n) == SubSeq(s, 1, Min(n, Len(s)))

\* position of the first row of the table with this Plant (0 when none)
FirstRowOf(rows, plant) == IndexOf(Column(rows, "Plant"), plant)

\* df.loc[df['Plant'] == sid, 'Common Name'].iloc[0], else sid
CommonNameOfPlant(rows, sid) ==
    IF FirstRowOf(rows, sid) = 0 THEN sid ELSE rows[FirstRowOf(rows, sid)]["Common Name"]

\* GET /api/similar.  resp.rows records the table rows the entries of the
\* answer were computed from.
similar_plants(plant) ==
    /\ Idle
    /\ IF plant = <<>> \/ plant \notin Range(Column(df, "Plant"))
       THEN resp' = [op |-> "similar", plant |-> plant, similar |-> <<>>, rows |-> <<>>]
       ELSE LET target == ENCODED[FirstRowOf(df, plant)]
                others == Where([i \in 1..Len(df) |-> i],
                                [i \in 1..Len(df) |-> df[i]["Plant"] # plant])
                dist == List([i \in 1..Len(df) |-> SqDist(ENCODED[i], target)])
                top == Take(StableSort(others, dist), SIMILAR_LIMIT)
            IN resp' = [op |-> "similar", plant |-> plant, rows |-> top,
                        similar |-> [k \in DOMAIN top |->
                                       [id |-> df[top[k]]["Plant"],
                                        text |-> CommonNameOfPlant(df, df[top[k]]["Plant"])]]]
    /\ UNCHANGED shared

\* rows of the long tables, and how many of their last rows vary
LongRows == 12
FreeRows == 3

\* the plant id of row i of a long table: p000, p001, ...
IdOf(i) == <<"p", Digits[((i \div 100) % 10) + 1], Digits[((i \div 10) % 10) + 1],
             Digits[(i % 10) + 1]>>

\* the rotation of pool rows a long table starts with
PoolCycle == <<RowNeem, RowOkra, RowRice, RowOkra, RowNeem>>

\* distinct adaptation tokens of the generated texts
TokenKinds == 52

\* the adaptation token number j: t00, t01, ...
Tok(j) == <<"t", Digits[((j \div 10) % 10) + 1], Digits[(j % 10) + 1]>>

\* the generated Special Adaptations text of row i: two tokens
GenText(i) == Tok(i % TokenKinds) \o <<";", " ">> \o Tok((i * i) % TokenKinds)

\* the long tables of n rows: the pool in rotation, then free rows from the
\* pool; distinct ids; with gen the rotation rows carry generated texts
LongTables(cols, n, free, gen) ==
    {[cols |-> cols,
      rows |-> [i \in 1..n |->
                  [c \in cols |->
                     IF c = "Plant" THEN IdOf(i)
                     ELSE IF i > n - free THEN tail[i - (n - free)][c]
                     ELSE IF gen /\ c = "Special Adaptations" THEN GenText(i)
                     ELSE PoolCycle[(i % Len(PoolCycle)) + 1][c]]]] :
        tail \in [1..free -> SmallPool]}

SimilarPlants ==
    {<<>>, sNeem, sRice, <<"F","i","g">>} \cup {IdOf(i) : i \in 1..(LongRows + 1)}

InitSimilar ==
    Loaded(Tables(SchemaNew, SmallPool, MaxRows, MaxRows)
             \cup LongTables(SchemaNew, LongRows, FreeRows, FALSE))

NextSimilar == Startup \/ send_response \/ \E plant \in SimilarPlants : similar_plants(plant)

SpecSimilar == InitSimilar /\ [][NextSimilar]_vars

(***************************************************************************)
(* C4: nearest neighbours: an unknown id gives the empty list; otherwise   *)
(* at most 10 plants, never the query id, in non-decreasing distance over  *)
(* the catalog-wide ordinal codes, equal distances in catalog order, and   *)
(* no omitted plant strictly closer than a returned one.                   *)
(***************************************************************************)
\* squared Euclidean distance of row i to the first row of the queried plant
DistTo(plant, i) == SqDist(ENCODED[i], ENCODED[FirstRowOf(df, plant)])

OtherRows(plant) == {i \in DOMAIN df : df[i]["Plant"] # plant}

\* C4: empty for an unknown id; else at most 10 other plants, nearest first,
\* ties in catalog order, nothing omitted that is strictly closer
C4_NearestNeighbours ==
    resp.op = "similar" =>
        IF \A i \in DOMAIN df : df[i]["Plant"] # resp.plant
        THEN resp.similar = <<>>
        ELSE /\ Len(resp.similar) <= 10
             /\ Len(resp.similar) = Len(resp.rows)
             /\ Range(resp.rows) \subseteq OtherRows(resp.plant)
             /\ \A k \in DOMAIN resp.similar :
                   /\ resp.similar[k].id = df[resp.rows[k]]["Plant"]
                   /\ resp.similar[k].id # resp.plant
             /\ \A k, l \in DOMAIN resp.rows :
                   k < l =>
                     \/ DistTo(resp.plant, resp.rows[k]) < DistTo(resp.plant, resp.rows[l])
                     \/ /\ DistTo(resp.plant, resp.rows[k]) = DistTo(resp.plant, resp.rows[l])
                        /\ resp.rows[k] < resp.rows[l]
             /\ \A j \in OtherRows(resp.plant) \ Range(resp.rows) :
                   /\ Len(resp.rows) = 10
                   /\ \A k \in DOMAIN resp.rows :
                         DistTo(resp.plant, j) >= DistTo(resp.plant, resp.rows[k])

\* ten neighbours returned and one left out, with a tie and a strict step
\* among the distances
C4_Witness ==
    /\ resp.op = "similar"
    /\ Len(resp.rows) = 10
    /\ OtherRows(resp.plant) \ Range(resp.rows) # {}
    /\ \E k \in 1..9 : DistTo(resp.plant, resp.rows[k]) = DistTo(resp.plant, resp.rows[k + 1])
    /\ \E k \in 1..9 : DistTo(resp.plant, resp.rows[k]) < DistTo(resp.plant, resp.rows[k + 1])

(***************************************************************************)
(* get_wordcloud                                                           *)
(***************************************************************************)
\* ' '.join(texts)
JoinSpace(texts) ==
    Concat([k \in DOMAIN texts |-> IF k = 1 THEN texts[k] ELSE <<" ">> \o texts[k]])

\* whether position p of s holds an alphanumeric character
AlnumAt(s, p) == p >= 1 /\ p <= Len(s) /\ IsAlnum[s[p]]

\* the end of the alphanumeric run of s that starts at p
RunEnd(s, p) == CHOOSE e \in p..Len(s) : AlnumAt(s, e) /\ ~AlnumAt(s, e + 1)

\* re.split(r"[^a-zA-Z0-9]+", s): the alphanumeric runs of s, with an empty
\* string first (last) when s starts (ends) with a separator or is empty
ReSplitNonAlnum(s) ==
    (IF ~AlnumAt(s, 1) THEN << <<>> >> ELSE <<>>)
      \o Concat([p \in DOMAIN s |->
                   IF AlnumAt(s, p) /\ ~AlnumAt(s, p - 1)
                   THEN <<SubSeq(s, p, RunEnd(s, p))>> ELSE <<>>])
      \o (IF Len(s) > 0 /\ ~AlnumAt(s, Len(s)) THEN << <<>> >> ELSE <<>>)

\* variant: tokens of length 2 are kept too
IsWordFromTwo(t) == Len(t) >= 2 /\ t # unknown

\* len(t) > 2 and t != 'unknown'
IsWord(t) == Len(t) > 2 /\ t # unknown

\* [t for t in tokens if len(t) > 2 and t != 'unknown']
KeepWords(tokens) ==
    Concat([k \in DOMAIN tokens |-> IF IsWord(tokens[k]) THEN <<tokens[k]>> ELSE <<>>])

\* Counter(items): the distinct items in first-seen order, and their counts
CounterKeys(items) == FirstSeen(items)

CounterOf(items) ==
    Table([t \in Range(items) |-> Cardinality({i \in DOMAIN items : items[i] = t})])

\* Counter(items).most_common(n): by count, largest first, equal counts in
\* first-seen order
MostCommon(items, n) ==
    LET c == CounterOf(items) IN
    Take(StableSort(CounterKeys(items), Table([t \in Range(items) |-> 0 - c[t]])), n)

WORDCLOUD_LIMIT == 50

\* GET /api/wordcloud
get_wordcloud(q) ==
    /\ Idle
    /\ resp' = LET filtered == apply_filters(df, q)
                   text == Lower(JoinSpace([k \in DOMAIN filtered |->
                                              df[filtered[k]]["Special Adaptations"]]))
                   tokens == KeepWords(ReSplitNonAlnum(text))
                   top == MostCommon(tokens, WORDCLOUD_LIMIT)
                   c == CounterOf(tokens)
               IN [op |-> "wordcloud", q |-> q, filtered |-> filtered,
                   terms |-> top, counts |-> [k \in DOMAIN top |-> c[top[k]]]]
    /\ UNCHANGED shared

(***************************************************************************)
(* get_sunburst                                                            *)
(***************************************************************************)
\* Series.value_counts(): the distinct values by count, largest first; the
\* order of equal counts depends on the sort pandas uses, so any is possible
ValueCountOrders(rows, idx, col) ==
    LET c == ValueCounts(rows, idx, col)
        n == Cardinality(DOMAIN c) IN
    {o \in [1..n -> DOMAIN c] :
        /\ \A i, j \in 1..n : i # j => o[i] # o[j]
        /\ \A i, j \in 1..n : i < j => c[o[i]] >= c[o[j]]}

\* groupby([a, b])[...].count(): the observed (a, b) pairs in sorted key order
GroupKeys(rows, idx, a, b) ==
    LET as == SortedStrs({rows[idx[k]][a] : k \in DOMAIN idx}) IN
    Concat([i \in DOMAIN as |->
              LET bs == SortedStrs({rows[idx[k]][b] : k \in {k \in DOMAIN idx : rows[idx[k]][a] = as[i]}})
              IN [j \in DOMAIN bs |-> <<as[i], bs[j]>>]])

\* the count of a group: its rows
GroupSize(rows, idx, a, b, key) ==
    Cardinality({k \in DOMAIN idx : rows[idx[k]][a] = key[1] /\ rows[idx[k]][b] = key[2]})

\* variant: the root counts the distinct plants
SunburstRootDistinct(rows, idx) == Cardinality({rows[idx[k]]["Plant"] : k \in DOMAIN idx})

\* values = [len(filtered)]
SunburstRoot(rows, idx) == Len(idx)

\* GET /api/sunburst: the nodes as (label, parent, value), root first, then the
\* growth forms, the (growth form, leaf trait) groups and the plants
get_sunburst(q) ==
    /\ Idle
    /\ \E order \in ValueCountOrders(df, apply_filters(df, q), "Stem / Growth Form") :
          resp' = LET filtered == apply_filters(df, q)
                      gf == "Stem / Growth Form"
                      lt == "Leaf Traits"
                      gf_counts == ValueCounts(df, filtered, gf)
                      grouped == GroupKeys(df, filtered, gf, lt)
                      level0 == << <<<<"A","l","l">>, <<>>, SunburstRoot(df, filtered)>> >>
                      level1 == [i \in DOMAIN order |->
                                   <<order[i], <<"A","l","l">>, gf_counts[order[i]]>>]
                      level2 == [i \in DOMAIN grouped |->
                                   <<grouped[i][2], grouped[i][1],
                                     GroupSize(df, filtered, gf, lt, grouped[i])>>]
                      level3 == [k \in DOMAIN filtered |->
                                   <<df[filtered[k]]["Common Name"], df[filtered[k]][lt], 1>>]
                      nodes == level0 \o level1 \o level2 \o level3
                  IN [op |-> "sunburst", q |-> q, filtered |-> filtered,
                      labels |-> [i \in DOMAIN nodes |-> nodes[i][1]],
                      parents |-> [i \in DOMAIN nodes |-> nodes[i][2]],
                      values |-> [i \in DOMAIN nodes |-> nodes[i][3]]]
    /\ UNCHANGED shared

(***************************************************************************)
(* get_sankey                                                              *)
(***************************************************************************)
\* the separator characters of re.split(r'[;,/]\s*', text)
IsSep(c) == c \in {";", ",", "/"}

\* position p of s lies in a match of [;,/]\s*: a separator character, or
\* whitespace in the run that follows one
InSeparator(s, p) ==
    \/ IsSep(s[p])
    \/ /\ s[p] = " "
       /\ \E b \in 1..(p - 1) : IsSep(s[b]) /\ \A x \in (b + 1)..p : s[x] = " "

\* the end of the part of s that starts at p
PartEnd(s, p) ==
    CHOOSE e \in p..Len(s) :
        /\ \A x \in p..e : ~InSeparator(s, x)
        /\ (e = Len(s) \/ InSeparator(s, e + 1))

\* the non-empty parts of re.split(r'[;,/]\s*', s)
ReSplitSeparators(s) ==
    Concat([p \in DOMAIN s |->
              IF ~InSeparator(s, p) /\ (p = 1 \/ InSeparator(s, p - 1))
              THEN <<SubSeq(s, p, PartEnd(s, p))>> ELSE <<>>])

\* [p.strip() for p in parts if p and p.lower() != 'unknown']
split_adaptations(text) ==
    LET parts == ReSplitSeparators(text) IN
    Concat([k \in DOMAIN parts |->
              IF Lower(parts[k]) # unknown THEN <<Strip(parts[k])>> ELSE <<>>])

\* token for val in filtered['Special Adaptations'] for token in
\* split_adaptations(val): the tokens of the kept rows, in row order
AllTokens(rows, idx) ==
    Concat([k \in DOMAIN idx |-> split_adaptations(rows[idx[k]]["Special Adaptations"])])

\* the caps of the adaptation tier and of the plant tier
SANKEY_TOKENS == 40
SANKEY_PLANTS == 150

\* adaptation_tokens: all of them, or the SANKEY_TOKENS most common
AdaptationTokens(all) ==
    IF Cardinality(Range(all)) > SANKEY_TOKENS
    THEN Range(MostCommon(all, SANKEY_TOKENS)) ELSE Range(all)

\* index_map.get(...) gives None when the key is absent
None == 0 - 1

\* position of the last v in the sequence s (0 when absent)
LastIndexOf(s, v) == IF \E i \in DOMAIN s : s[i] = v
                     THEN CHOOSE i \in DOMAIN s : s[i] = v /\ \A j \in (i + 1)..Len(s) : s[j] # v
                     ELSE 0

\* index_map.get((tier, v)) for a tier whose nodes start at offset: a later
\* node of the same key replaces the earlier one
IndexMapGet(offset, keys, v) ==
    IF LastIndexOf(keys, v) = 0 THEN None ELSE offset + LastIndexOf(keys, v) - 1

\* variant: every token is taken to have a node
HasAdaptNodeAlways(adapt, a) == TRUE

\* ('adapt', a) in index_map
HasAdaptNode(adapt, a) == IndexOf(adapt, a) # 0

\* the links of one row: per token with a node, stress -> adaptation and
\* adaptation -> plant
RowLinks(row, stress_values, adapt, plants) ==
    LET toks == split_adaptations(row["Special Adaptations"])
        s_idx == IndexMapGet(0, stress_values, row["Stress Tolerance"])
        p_idx == IndexMapGet(Len(stress_values) + Len(adapt), plants, row["Plant"])
    IN Concat([k \in DOMAIN toks |->
                 IF HasAdaptNode(adapt, toks[k])
                 THEN << <<s_idx, IndexMapGet(Len(stress_values), adapt, toks[k])>>,
                         <<IndexMapGet(Len(stress_values), adapt, toks[k]), p_idx>> >>
                 ELSE <<>>])

\* GET /api/sankey
get_sankey(q) ==
    /\ Idle
    /\ resp' = LET filtered == apply_filters(df, q)
                   stress_values == SortedStrs({df[filtered[k]]["Stress Tolerance"] :
                                                  k \in DOMAIN filtered})
                   adapt == SortedStrs(AdaptationTokens(AllTokens(df, filtered)))
                   plants == Take([k \in DOMAIN filtered |-> df[filtered[k]]["Plant"]],
                                  SANKEY_PLANTS)
                   filtered_subset ==
                       IF Len(filtered) > SANKEY_PLANTS
                       THEN FilterIsin(df, filtered, "Plant", plants) ELSE filtered
                   nodes == stress_values \o adapt
                              \o [k \in DOMAIN plants |-> CommonNameOfPlant(df, plants[k])]
                   links == Concat([k \in DOMAIN filtered_subset |->
                                      RowLinks(df[filtered_subset[k]], stress_values,
                                               adapt, plants)])
               IN [op |-> "sankey", q |-> q, filtered |-> filtered, nodes |-> nodes,
                   source |-> [i \in DOMAIN links |-> links[i][1]],
                   target |-> [i \in DOMAIN links |-> links[i][2]],
                   value |-> [i \in DOMAIN links |-> 1]]
    /\ UNCHANGED shared

(***************************************************************************)
(* The views over small tables and over tables larger than the caps        *)
(***************************************************************************)
\* rows of the large tables: more than the 150 plants a sankey shows
BigRows == 151

ViewQueries ==
    {EmptyQuery,
     WithArg(EmptyQuery, <<"growth_form", "brackets", <<sHerb>> >>),
     WithArg(EmptyQuery, <<"root_system", "plain", sFibrous >>),
     WithArg(EmptyQuery, <<"usage", "brackets", <<USAGE_OPTIONS[1]>> >>),
     WithArg(EmptyQuery, <<"plants", "brackets", << <<"F","i","g">> >> >>)}

\* the large tables: the pool in rotation with generated adaptation texts,
\* then free rows
BigTables == LongTables(SchemaNew, BigRows, FreeRows, TRUE)

InitViews == Loaded(Tables(SchemaNew, SmallPool, MaxRows, MaxRows) \cup BigTables)

NextViews ==
    \/ Startup
    \/ send_response
    \/ \E q \in ViewQueries : get_wordcloud(q)
    \/ \E q \in ViewQueries : get_sunburst(q)
    \/ \E q \in ViewQueries : get_sankey(q)

SpecViews == InitViews /\ [][NextViews]_vars

(***************************************************************************)
(* C8 as claimed: the sunburst root "All" has the subset size as value,    *)
(* and the values of the nodes whose parent is "All" sum to it.            *)
(***************************************************************************)
\* sum of the values at the positions in S
SumOver(S, values) == SumSeq([i \in DOMAIN values |-> IF i \in S THEN values[i] ELSE 0])

\* C8 as claimed: root value = subset size = sum over the nodes with parent "All"
C8_ParentAllSumsToRoot ==
    resp.op = "sunburst" =>
        /\ resp.labels[1] = <<"A","l","l">>
        /\ resp.values[1] = Len(resp.filtered)
        /\ SumOver({i \in DOMAIN resp.parents : resp.parents[i] = <<"A","l","l">>}, resp.values)
             = resp.values[1]

(***************************************************************************)
(* C8 amended: the root "All" has the subset size as value; the            *)
(* growth-form nodes are the nodes right after the root, one per distinct  *)
(* growth form of the subset with that form's row count, and their values  *)
(* sum to the root value; they are all the nodes whose parent is "All"     *)
(* when no growth form or leaf trait of the subset is itself "All".        *)
(***************************************************************************)
SubsetValues(col) == {df[resp.filtered[k]][col] : k \in DOMAIN resp.filtered}

\* C8 amended: root value = subset size = sum over the growth-form nodes
C8_GrowthFormsSumToRoot ==
    resp.op = "sunburst" =>
        LET forms == SubsetValues("Stem / Growth Form")
            level1 == 2..(Cardinality(forms) + 1) IN
        /\ resp.labels[1] = <<"A","l","l">>
        /\ resp.values[1] = Len(resp.filtered)
        /\ {resp.labels[i] : i \in level1} = forms
        /\ \A i \in level1 :
              /\ resp.parents[i] = <<"A","l","l">>
              /\ resp.values[i] = Cardinality({k \in DOMAIN resp.filtered :
                     df[resp.filtered[k]]["Stem / Growth Form"] = resp.labels[i]})
        /\ SumOver(level1, resp.values) = resp.values[1]
        /\ (<<"A","l","l">> \notin forms \cup SubsetValues("Leaf Traits"))
              => {i \in DOMAIN resp.parents : resp.parents[i] = <<"A","l","l">>} = level1

\* two growth forms with different counts, and a plant whose leaf trait is
\* "All", so that a plant node has the parent "All" too
C8_Witness ==
    /\ resp.op = "sunburst"
    /\ Cardinality(SubsetValues("Stem / Growth Form")) = 2
    /\ resp.values[2] > resp.values[3]
    /\ <<"A","l","l">> \in SubsetValues("Leaf Traits")
    /\ resp.values[1] = 5

(***************************************************************************)
(* C9: the word cloud holds at most 50 (token, count) entries, by          *)
(* non-increasing count, equal counts in first-encountered order; no token *)
(* of length <= 2 and not "unknown"; each count is the number of           *)
(* occurrences of the token in the lower-cased specialAdaptations texts of *)
(* the subset split on runs of non-alphanumeric characters.                *)
(***************************************************************************)
\* t stands at position p of text as a whole word: a maximal alphanumeric run
WordAt(text, p, t) ==
    /\ text[p] = t[1]
    /\ p + Len(t) - 1 <= Len(text)
    /\ (p = 1 \/ ~IsAlnum[text[p - 1]])
    /\ (p + Len(t) > Len(text) \/ ~IsAlnum[text[p + Len(t)]])
    /\ SubSeq(text, p, p + Len(t) - 1) = t

\* the lower-cased adaptation texts of the rows idx
LowerTexts(idx) == List([k \in DOMAIN idx |-> Lower(df[idx[k]]["Special Adaptations"])])

\* the occurrences of t in the texts: (text, position) pairs
Occurrences(texts, t) ==
    UNION {{<<k, p>> : p \in {p \in DOMAIN texts[k] : WordAt(texts[k], p, t)}} :
             k \in DOMAIN texts}

\* the first of a set of occurrences, in reading order
FirstOf(occ) ==
    CHOOSE o \in occ : \A x \in occ : o[1] < x[1] \/ (o[1] = x[1] /\ o[2] <= x[2])

Before(o, x) == o[1] < x[1] \/ (o[1] = x[1] /\ o[2] < x[2])

\* C9: at most 50 entries, by count descending with ties in first-encountered
\* order, no token of length <= 2 and no "unknown", each count the number of
\* occurrences in the lower-cased texts split on non-alphanumeric runs
C9_WordCloud ==
    resp.op = "wordcloud" =>
        LET texts == LowerTexts(resp.filtered)
            occ == List([k \in DOMAIN resp.terms |-> Occurrences(texts, resp.terms[k])])
            first == List([k \in DOMAIN resp.terms |-> FirstOf(occ[k])])
        IN
        /\ Len(resp.terms) <= 50
        /\ Len(resp.counts) = Len(resp.terms)
        /\ \A k \in DOMAIN resp.terms :
              /\ Len(resp.terms[k]) > 2
              /\ resp.terms[k] # <<"u","n","k","n","o","w","n">>
              /\ \A c \in Range(resp.terms[k]) : IsAlnum[c]
              /\ resp.counts[k] = Cardinality(occ[k])
              /\ resp.counts[k] >= 1
        /\ \A k, l \in DOMAIN resp.terms :
              k < l =>
                 \/ resp.counts[k] > resp.counts[l]
                 \/ resp.counts[k] = resp.counts[l] /\ Before(first[k], first[l])

\* the cap cuts the list: 50 entries with a tie and a strict step in the counts
C9_Witness ==
    /\ resp.op = "wordcloud"
    /\ Len(resp.terms) = 50
    /\ \E k \in 1..49 : resp.counts[k] = resp.counts[k + 1]
    /\ \E k \in 1..49 : resp.counts[k] > resp.counts[k + 1]
    /\ \E j \in 0..TokenKinds :
          /\ Tok(j) \notin Range(resp.terms)
          /\ Occurrences(LowerTexts(resp.filtered), Tok(j)) # {}

(***************************************************************************)
(* C7: the sankey has at most (#distinct stress values + min(40,           *)
(* #distinct adaptation tokens) + min(150, #plants)) nodes, and every      *)
(* link's source and target is the index of a node of the node list, also  *)
(* when the plant tier or the adaptation tier was truncated.               *)
(***************************************************************************)
C7_SankeyBounded ==
    resp.op = "sankey" =>
        LET stress == SubsetValues("Stress Tolerance")
            tokens == Range(AllTokens(df, resp.filtered))
        IN
        /\ Len(resp.nodes) <= Cardinality(stress) + Min(40, Cardinality(tokens))
                                + Min(150, Len(resp.filtered))
        /\ Len(resp.source) = Len(resp.target)
        /\ \A i \in DOMAIN resp.source :
              /\ resp.source[i] \in 0..(Len(resp.nodes) - 1)
              /\ resp.target[i] \in 0..(Len(resp.nodes) - 1)

\* both tiers truncated: more than 150 plants and more than 40 tokens, links
\* present, and a row of the subset carries a token that has no node
C7_Witness ==
    /\ resp.op = "sankey"
    /\ Len(resp.filtered) > 150
    /\ Cardinality(Range(AllTokens(df, resp.filtered))) > 40
    /\ Len(resp.source) > 0
    /\ \E t \in Range(AllTokens(df, resp.filtered)) : t \notin Range(resp.nodes)

(***************************************************************************)
(* trait_network                                                           *)
(***************************************************************************)
\* the cap of the adaptation nodes: adapt_counter.most_common(30)
NETWORK_TOKENS == 30

\* 'p::' + plant, 'rt::' + value, ...: the node id of a value in a group
NodeId(prefix, v) == prefix \o <<":", ":">> \o v

\* the trait tiers of the network: id prefix, column, group
NetworkTraits ==
    << [prefix |-> <<"r","t">>, col |-> "Root Type", group |-> "Root Type"],
       [prefix |-> <<"r","d">>, col |-> "Root Depth", group |-> "Root Depth"],
       [prefix |-> <<"g","f">>, col |-> "Stem / Growth Form", group |-> "Growth Form"],
       [prefix |-> <<"s","t">>, col |-> "Stress Tolerance", group |-> "Stress Tolerance"] >>

\* top_adapts = {t for t, _ in adapt_counter.most_common(30)}
TopAdapts(all) == Range(MostCommon(all, NETWORK_TOKENS))

\* variant: every token passes
InTopAdaptsAlways(top, a) == TRUE

\* a in top_adapts
InTopAdapts(top, a) == a \in top

\* the tokens of a row that get a link
LinkedTokens(row, top) ==
    LET toks == split_adaptations(row["Special Adaptations"]) IN
    Concat([k \in DOMAIN toks |-> IF InTopAdapts(top, toks[k]) THEN <<toks[k]>> ELSE <<>>])

\* the add_node calls of one row, in call order: the plant, the four traits,
\* the linked tokens
RowAddNodes(row, top) ==
    << [id |-> NodeId(<<"p">>, row["Plant"]), label |-> row["Common Name"],
        group |-> "plant"] >>
      \o [j \in DOMAIN NetworkTraits |->
            [id |-> NodeId(NetworkTraits[j].prefix, row[NetworkTraits[j].col]),
             label |-> row[NetworkTraits[j].col], group |-> NetworkTraits[j].group]]
      \o LET toks == LinkedTokens(row, top) IN
         [k \in DOMAIN toks |->
            [id |-> NodeId(<<"a","d">>, toks[k]), label |-> toks[k], group |-> "Adaptation"]]

\* add_node over a list of calls: a call appends its node unless a node of
\* that id is there already
AddedNodes(calls) ==
    LET ids == List([k \in DOMAIN calls |-> calls[k].id]) IN
    Concat([k \in DOMAIN calls |->
              IF \E j \in 1..(k - 1) : ids[j] = ids[k] THEN <<>> ELSE <<calls[k]>>])

\* node_index[node_id]
NodeIndex(node_ids, id) == IndexOf(node_ids, id) - 1

\* the links of one row: from its plant node to the node of each later call
RowNetworkLinks(row, top, node_ids) ==
    LET calls == RowAddNodes(row, top) IN
    [k \in 1..(Len(calls) - 1) |->
        [source |-> NodeIndex(node_ids, calls[1].id),
         target |-> NodeIndex(node_ids, calls[k + 1].id)]]

\* GET /api/network
trait_network(q) ==
    /\ Idle
    /\ resp' = LET filtered == apply_filters(df, q)
                   top == TopAdapts(AllTokens(df, filtered))
                   nodes == AddedNodes(Concat([k \in DOMAIN filtered |->
                                                 RowAddNodes(df[filtered[k]], top)]))
                   node_ids == List([i \in DOMAIN nodes |-> nodes[i].id])
               IN [op |-> "network", q |-> q, filtered |-> filtered, nodes |-> nodes,
                   links |-> Concat([k \in DOMAIN filtered |->
                                       RowNetworkLinks(df[filtered[k]], top, node_ids)])]
    /\ UNCHANGED shared

InitNetwork == Loaded(Tables(SchemaNew, SmallPool, MaxRows, MaxRows) \cup BigTables)

NextNetwork == Startup \/ send_response \/ \E q \in ViewQueries : trait_network(q)

SpecNetwork == InitNetwork /\ [][NextNetwork]_vars

(***************************************************************************)
(* C11: the network's nodes have pairwise distinct ids: one plant node per *)
(* plant id, one node per distinct value of root type, root depth, growth  *)
(* form and stress tolerance, and at most 30 adaptation-token nodes; each  *)
(* row contributes exactly one link to each of its four trait-value nodes, *)
(* an adaptation link goes only to a token of the top-30 set, and every    *)
(* link's source and target are indices of existing nodes.                 *)
(***************************************************************************)
\* the ids of the nodes of a group
GroupIds(group) ==
    {resp.nodes[i].id : i \in {i \in DOMAIN resp.nodes : resp.nodes[i].group = group}}

\* the tokens that have an adaptation node
NodeTokens ==
    {resp.nodes[i].label : i \in {i \in DOMAIN resp.nodes : resp.nodes[i].group = "Adaptation"}}

\* the 0-based position of the node with this id
PositionOf(id) == (CHOOSE i \in DOMAIN resp.nodes : resp.nodes[i].id = id) - 1

\* how many links go from node s to node t
LinkCount(s, t) ==
    Cardinality({i \in DOMAIN resp.links :
                    resp.links[i].source = s /\ resp.links[i].target = t})

\* C11: distinct content-addressed node ids per tier, at most 30 adaptation
\* nodes (the most frequent tokens), one link per row and trait, adaptation
\* links only to top tokens, every endpoint an index of a node
C11_Network ==
    resp.op = "network" =>
        LET all == AllTokens(df, resp.filtered)
            count == CounterOf(all)
            rows == resp.filtered
        IN
        /\ \A i, j \in DOMAIN resp.nodes : i # j => resp.nodes[i].id # resp.nodes[j].id
        /\ \A i \in DOMAIN resp.nodes :
              resp.nodes[i].group \in {"plant", "Adaptation"}
                                        \cup {NetworkTraits[j].group : j \in DOMAIN NetworkTraits}
        /\ GroupIds("plant") = {NodeId(<<"p">>, v) : v \in SubsetValues("Plant")}
        /\ \A j \in DOMAIN NetworkTraits :
              GroupIds(NetworkTraits[j].group)
                 = {NodeId(NetworkTraits[j].prefix, v) : v \in SubsetValues(NetworkTraits[j].col)}
        /\ GroupIds("Adaptation") = {NodeId(<<"a","d">>, t) : t \in NodeTokens}
        /\ Cardinality(NodeTokens) <= 30
        /\ NodeTokens \subseteq Range(all)
        /\ Cardinality(NodeTokens) = Min(30, Cardinality(Range(all)))
        /\ \A t \in Range(all) \ NodeTokens : \A u \in NodeTokens : count[t] <= count[u]
        /\ \A i \in DOMAIN resp.links :
              /\ resp.links[i].source \in 0..(Len(resp.nodes) - 1)
              /\ resp.links[i].target \in 0..(Len(resp.nodes) - 1)
              /\ resp.nodes[resp.links[i].source + 1].group = "plant"
              /\ resp.nodes[resp.links[i].target + 1].group # "plant"
        /\ \A k \in DOMAIN rows : \A j \in DOMAIN NetworkTraits :
              LinkCount(PositionOf(NodeId(<<"p">>, df[rows[k]]["Plant"])),
                        PositionOf(NodeId(NetworkTraits[j].prefix,
                                          df[rows[k]][NetworkTraits[j].col])))
                = Cardinality({m \in DOMAIN rows :
                      /\ df[rows[m]]["Plant"] = df[rows[k]]["Plant"]
                      /\ df[rows[m]][NetworkTraits[j].col] = df[rows[k]][NetworkTraits[j].col]})
        /\ Len(resp.links)
              = 4 * Len(rows) + Cardinality({i \in DOMAIN all : all[i] \in NodeTokens})

\* the cap cuts: more than 30 distinct tokens in the subset, a trait value
\* shared by two plants, and links to adaptation nodes
C11_Witness ==
    /\ resp.op = "network"
    /\ Cardinality(Range(AllTokens(df, resp.filtered))) > 30
    /\ Cardinality(NodeTokens) = 30
    /\ Cardinality(GroupIds("Growth Form")) < Cardinality(GroupIds("plant"))
    /\ Len(resp.links) > 4 * Len(resp.filtered)

(***************************************************************************)
(* The handlers that read the plant list, compare_plants and radar_data    *)
(***************************************************************************)
\* results[:10] of plant_search
SEARCH_LIMIT == 10

\* GET /api/plant-search
plant_search(text) ==
    /\ Idle
    /\ resp' = LET needle == Lower(text) IN
               [op |-> "plant-search", text |-> text,
                results |-> Take(Concat([i \in DOMAIN PLANT_LIST |->
                                IF \/ Contains(Lower(PLANT_LIST[i].text), needle)
                                   \/ Contains(Lower(PLANT_LIST[i].scientific), needle)
                                THEN <<PLANT_LIST[i]>> ELSE <<>>]), SEARCH_LIMIT)]
    /\ UNCHANGED shared

\* GET /api/plants-by-category: CATEGORY_MAPPINGS.get(category, [])
plants_by_category(category) ==
    /\ Idle
    /\ resp' = [op |-> "plants-by-category", category |-> category,
                plants |-> IF category \in DOMAIN CATEGORY_MAPPINGS
                           THEN CATEGORY_MAPPINGS[category] ELSE <<>>]
    /\ UNCHANGED shared

\* the traits list of compare_plants
CompareTraits == <<"Root Type", "Root Depth", "Stem / Growth Form", "Leaf Traits",
                   "Reproductive Traits", "Stress Tolerance", "Special Adaptations",
                   "VegetableFlag", "FruitFlag", "MedicinalFlag", "CommercialFlag",
                   "OrnamentalFlag", "FodderFlag">>

\* values[plant] after the loop over the rows: the traits of the last row of
\* the plant, the empty dict for a plant without rows
CompareValues(rows, plant) ==
    IF LastIndexOf(Column(rows, "Plant"), plant) = 0 THEN <<>>
    ELSE LET row == rows[LastIndexOf(Column(rows, "Plant"), plant)] IN
         Table([t \in Range(CompareTraits) |-> row[t]])

\* GET /api/compare: values is a dict of the handler's own
compare_plants(q) ==
    /\ Idle
    /\ resp' = LET selected == _parse_list_arg(q, "plants") IN
               IF selected = <<>>
               THEN [op |-> "compare", q |-> q, plants |-> <<>>, display_names |-> <<>>,
                     traits |-> <<>>, values |-> <<>>]
               ELSE [op |-> "compare", q |-> q, plants |-> selected,
                     display_names |-> [k \in DOMAIN selected |->
                                          CommonNameOfPlant(df, selected[k])],
                     traits |-> CompareTraits,
                     values |-> Table([plant \in Range(selected) |->
                                         CompareValues(df, plant)])]
    /\ UNCHANGED shared

\* A frame a handler holds is a reference: obj names the object it refers to
\* (a module-level name, or "copy" for an object of the handler's own) and
\* data is that object's content.
FrameRef(name, data) == [obj |-> name, data |-> data]

\* variant: no copy is made, the handler keeps the reference it was given
FrameCopyAlias(ref) == ref

\* DataFrame.copy(): a new object with the same content
FrameCopy(ref) == [obj |-> "copy", data |-> ref.data]

\* ref[col] = values: the column is written into the object ref refers to
SetColumn(ref, col, values) ==
    [obj |-> ref.obj,
     data |-> List([i \in DOMAIN ref.data |-> Table((col :> values[i]) @@ ref.data[i])])]

\* the content of the module-level object name once the handler has written
\* through ref
ObjectAfter(name, ref, old) == IF ref.obj = name THEN ref.data ELSE old

\* encoded_rows = ENCODED.copy(); encoded_rows['Plant'] = df['Plant']
RadarEncodedRows ==
    SetColumn(FrameCopy(FrameRef("ENCODED", ENCODED)), "Plant", Column(df, "Plant"))

\* max(1, encoded_rows[c].max())
RadarMaximum(rows, c) ==
    Max(1, CHOOSE m \in {rows[i][c] : i \in DOMAIN rows} :
              \A i \in DOMAIN rows : rows[i][c] <= m)

\* the series of radar_data: per selected plant that has a row, the codes of
\* its first row over the column maxima, each as (numerator, denominator)
RadarSeries(rows, selected) ==
    Concat([k \in DOMAIN selected |->
              IF FirstRowOf(rows, selected[k]) = 0 THEN <<>>
              ELSE << [name |-> selected[k],
                       values |-> [j \in DOMAIN TRAIT_COLS |->
                                     <<rows[FirstRowOf(rows, selected[k])][TRAIT_COLS[j]],
                                       RadarMaximum(rows, TRAIT_COLS[j])>>]] >>])

\* GET /api/radar
radar_data(q) ==
    /\ Idle
    /\ resp' = LET selected == _parse_list_arg(q, "plants") IN
               IF selected = <<>>
               THEN [op |-> "radar", q |-> q, categories |-> <<>>, series |-> <<>>]
               ELSE [op |-> "radar", q |-> q, categories |-> TRAIT_COLS,
                     series |-> RadarSeries(RadarEncodedRows.data, selected)]
    /\ ENCODED' = IF _parse_list_arg(q, "plants") = <<>> THEN ENCODED
                  ELSE ObjectAfter("ENCODED", RadarEncodedRows, ENCODED)
    /\ UNCHANGED <<pc, frame, df, FILTER_OPTIONS, PLANT_LIST, CATEGORY_MAPPINGS, ENCODERS>>

(***************************************************************************)
(* The server after startup: any sequence of requests                      *)
(***************************************************************************)
PlantQueries ==
    {EmptyQuery,
     WithArg(EmptyQuery, <<"plants", "brackets", <<sNeem, sRice>> >>),
     WithArg(EmptyQuery, <<"plants", "brackets", <<sRice, sRice>> >>),
     WithArg(EmptyQuery, <<"plants", "plain", <<"N","e","e","m",","," ","O","k","r","a">> >>),
     WithArg(EmptyQuery, <<"plants", "brackets", << <<"F","i","g">> >> >>)}

SearchTexts == {<<>>, <<"n","e">>, <<"R","I">>, <<"z">>}

Categories == {"Tree", "Herb", "Edible", "Drought Tolerant", "Fern"}

InitRequests == Loaded(Tables(SchemaNew, SmallPool, MaxRows, MaxRows))

NextRequests ==
    \/ Startup
    \/ send_response
    \/ \E q \in ViewQueries : get_stress(q)
    \/ \E q \in ViewQueries : get_wordcloud(q)
    \/ \E q \in ViewQueries : get_sunburst(q)
    \/ \E q \in ViewQueries : get_sankey(q)
    \/ \E q \in ViewQueries : trait_network(q)
    \/ \E q \in PlantQueries : compare_plants(q)
    \/ \E q \in PlantQueries : radar_data(q)
    \/ \E plant \in SimilarPlants : similar_plants(plant)
    \/ \E q \in ClusterQueries, k \in 1..MaxK : get_clusters(q, <<"u","s","a","g","e">>, k)
    \/ \E text \in SearchTexts : plant_search(text)
    \/ \E category \in Categories : plants_by_category(category)

SpecRequests == InitRequests /\ [][NextRequests]_vars

====
